---- MODULE Spec2Model ----
(***************************************************************************)
(* Model of the AVP workshop demos:                                        *)
(*   - demos/04-hardware-security/avp_hardware.py                          *)
(*       NexusClawSimulator and the NexusClaw wrapper          (Spec)      *)
(*   - demos/03-crewai-avp/avp_crewai.py                                   *)
(*       AVPCredentialManager over an AVPClient                (SpecVault) *)
(*   - demos/02-langchain-avp/avp_langchain.py                             *)
(*       AVPCredentialProvider over an AVPClient               (SpecVault) *)
(* The AVPClient / FileBackend (package avp) is not part of the demos'     *)
(* sources; its operations are modelled from the design document.          *)
(***************************************************************************)
EXTENDS Integers, Sequences, FiniteSets, TLC

VARIABLES
    \* ---- NexusClawSimulator fields (avp_hardware.py:50-57)
    connected,        \* _connected
    pin_set,          \* _pin_set
    pin,              \* _pin : Optional[str], {} is None, {p} is the string p
    slots,            \* _slots : dict, as a sequence of [name, value] in insertion order
    failed_attempts,  \* _failed_attempts
    \* ---- NexusClaw fields (avp_hardware.py:153-155)
    authenticated,    \* _authenticated
    \* ---- observation of the last NexusClaw call and history of the calls
    hwLast,           \* [op, name, pin, result, out, names] of the last call
    touched,          \* the last call went through the touch confirmation
    touch_arrived,    \* the user touched the device while the last call waited
    stored,           \* name -> value of the last store that succeeded, {} once
                      \* the name was deleted or the device wiped
    consec_failed,    \* number of failed authenticate calls since the last success
    lockout,          \* a configured device saw 3 failures in a row, no setup since
    unlocked_since,   \* an authenticate succeeded and no disconnect happened since
    \* ---- the vault behind an AVPClient (package avp)
    app,              \* which program runs: "manager" or "provider"
    now,              \* wall clock, in seconds
    vault,            \* workspace -> sequence of [name, value, version]
    client_sessions,  \* sessions issued, session_id -> [workspace, expires_at,
                      \* closed]
    client_closed,    \* AVPClient.close() has been called
    vault_file,       \* the EncryptedFile vault on disk, as bytes
    tampered,         \* a byte of the vault file was changed after it was written
    \* ---- AVPCredentialManager fields (avp_crewai.py:36-39)
    sessions,         \* _sessions : workspace -> session_id
    audit_log,        \* _audit_log
    \* ---- AVPCredentialProvider fields (avp_langchain.py:39-41)
    session_id,       \* _session_id
    \* ---- observation of the last manager / provider call and history
    swLast,           \* [sid, op, workspace, name, result, cause, out, names, at]
    audit_view,       \* what the last call returned, if it was get_audit_log
    threads,          \* per calling thread: [pc, op, workspace, name, value, sid]
    effects,          \* the calls that took effect on the vault, in that order
    op_count,         \* number of credential operations performed
    last_set,         \* (workspace, name) -> value of the last set, {} once
                      \* a rotate or delete of that name was issued
    \* ---- 04_migrate_credentials.py: the working directory and the script
    files,            \* file name -> [exists, data], data the file's entries
    environ,          \* os.environ, as a dict of [name, value]
    credentials_found,\* dict name -> (value, source), in insertion order
    migrated,         \* count of stores that succeeded
    files_to_delete,  \* the files still to be deleted by the clean-up loop
    script            \* [pc, i]: the script's position and its loop index

hwVars == <<connected, pin_set, pin, slots, failed_attempts, authenticated,
            hwLast, touched, touch_arrived, stored, consec_failed, lockout,
            unlocked_since>>

fileVars == <<client_closed, vault_file, tampered>>

swVars == <<app, now, vault, client_sessions, sessions, audit_log, session_id,
            swLast, audit_view, op_count, last_set, client_closed, vault_file,
            tampered>>

thVars == <<threads, effects>>

migVars == <<files, environ, credentials_found, migrated, files_to_delete,
             script>>

vars == <<connected, pin_set, pin, slots, failed_attempts, authenticated,
          hwLast, touched, touch_arrived, stored, consec_failed, lockout,
          unlocked_since,
          app, now, vault, client_sessions, sessions, audit_log, session_id,
          swLast, audit_view, op_count, last_set, client_closed, vault_file,
          tampered, threads, effects,
          files, environ, credentials_found, migrated, files_to_delete,
          script>>

-----------------------------------------------------------------------------
(* Strings and bytes.  A str is a sequence of code points, bytes a sequence *)
(* of 0..255.  str.encode() / bytes.decode() are UTF-8.                     *)

EncodeChar(c) ==
    IF c < 128 THEN <<c>>
    ELSE <<192 + (c \div 64), 128 + (c % 64)>>

RECURSIVE Encode(_)
Encode(s) ==
    IF s = <<>> THEN <<>> ELSE EncodeChar(Head(s)) \o Encode(Tail(s))

RECURSIVE Decode(_)
Decode(b) ==
    IF b = <<>> THEN <<>>
    ELSE IF Head(b) < 128 THEN <<Head(b)>> \o Decode(Tail(b))
    ELSE <<(Head(b) - 192) * 64 + (Head(Tail(b)) - 128)>> \o Decode(Tail(Tail(b)))

\* credential values offered to the operations: "A" and "é"
Values == {<<65>>, <<233>>}

-----------------------------------------------------------------------------
(* NexusClaw hardware key: constants, bounds and inputs                     *)

\* _max_slots; 32 in avp_hardware.py:55, scaled down so that a full device
\* is reached
max_slots == 2
max_attempts == 3
MinPinLen == 4
\* cap on _failed_attempts, which the code lets grow without limit
MaxFailed == 4

AllNames == <<"anthropic_api_key", "openai_api_key", "github_token",
              "db_password", "slack_token", "aws_secret">>
\* one name more than the device has slots
SlotNames == {AllNames[i] : i \in 1..(max_slots + 1)}

\* "1234", "0000", "123"
Pins == {<<1, 2, 3, 4>>, <<0, 0, 0, 0>>, <<1, 2, 3>>}

\* dict helpers: _slots keeps insertion order, assignment to an existing key
\* keeps its position
Keys(s) == {s[i].name : i \in 1..Len(s)}

IndexOf(s, n) == CHOOSE i \in 1..Len(s) : s[i].name = n

DictSet_keep(s, n, v) ==
    IF n \in Keys(s) THEN s ELSE Append(s, [name |-> n, value |-> v])
DictSet(s, n, v) ==
    IF n \in Keys(s)
    THEN [s EXCEPT ![IndexOf(s, n)].value = v]
    ELSE Append(s, [name |-> n, value |-> v])

DictDel_all(s, n) == <<>>
DictDel(s, n) == SelectSeq(s, LAMBDA e : e.name # n)

DictGet(s, n) == s[IndexOf(s, n)].value

\* NexusClawSimulator.list_slots
list_slots_reversed(s) == [i \in 1..Len(s) |-> s[Len(s) + 1 - i].name]
list_slots(s) == [i \in 1..Len(s) |-> s[i].name]

\* NexusClawSimulator.verify_pin: the wipe condition
WipeDue_after(n) == n > max_attempts
WipeDue(n) == n >= max_attempts

\* NexusClawSimulator.verify_pin(p) on the device state (pn, fa, s)
verify_pin_noreset(pn, fa, s, p) ==
    IF {p} = pn
    THEN [ok |-> TRUE, failed_attempts |-> fa, slots |-> s]
    ELSE [ok |-> FALSE, failed_attempts |-> fa + 1,
          slots |-> IF WipeDue(fa + 1) THEN <<>> ELSE s]
verify_pin(pn, fa, s, p) ==
    IF {p} = pn
    THEN [ok |-> TRUE, failed_attempts |-> 0, slots |-> s]
    ELSE [ok |-> FALSE, failed_attempts |-> fa + 1,
          slots |-> IF WipeDue(fa + 1) THEN <<>> ELSE s]

\* NexusClawSimulator.store: the capacity check
SlotsFull_off(s) == Len(s) > max_slots
SlotsFull(s) == Len(s) >= max_slots

\* NexusClawSimulator.store(slot_name, value) on the slots s
sim_store(s, n, v) ==
    IF SlotsFull(s)
    THEN [result |-> "ValueError", slots |-> s, touch |-> FALSE]
    ELSE [result |-> "True", slots |-> DictSet(s, n, v), touch |-> TRUE]

\* NexusClawSimulator.retrieve(slot_name) on the slots s
sim_retrieve(s, n) ==
    IF n \notin Keys(s)
    THEN [result |-> "KeyError", value |-> <<>>, touch |-> FALSE]
    ELSE [result |-> "ok", value |-> DictGet(s, n), touch |-> TRUE]

\* NexusClawSimulator.delete(slot_name) on the slots s
sim_delete(s, n) ==
    IF n \in Keys(s)
    THEN [result |-> "True", slots |-> DictDel(s, n), touch |-> FALSE]
    ELSE [result |-> "False", slots |-> s, touch |-> FALSE]

\* the "if not self._authenticated: raise PermissionError" guards of NexusClaw
StoreDenied == ~authenticated
RetrieveDenied == ~authenticated
DeleteDenied_nocheck == FALSE
DeleteDenied == ~authenticated
ListDenied == ~authenticated

\* NexusClawSimulator.setup_pin: "if len(pin) < 4"
PinTooShort_off(p) == Len(p) < MinPinLen - 1
PinTooShort(p) == Len(p) < MinPinLen

Last(op, n, p, r, o, ns) ==
    [op |-> op, name |-> n, pin |-> p, result |-> r, out |-> o, names |-> ns,
     before |-> Len(slots)]

InitHW ==
    /\ connected = FALSE
    /\ pin_set = FALSE
    /\ pin = {}
    /\ slots = <<>>
    /\ failed_attempts = 0
    /\ authenticated = FALSE
    /\ hwLast = Last("init", "", <<>>, "", <<>>, <<>>)
    /\ touched = FALSE
    /\ touch_arrived = FALSE
    /\ stored = [n \in SlotNames |-> {}]
    /\ consec_failed = 0
    /\ lockout = FALSE
    /\ unlocked_since = FALSE

\* NexusClaw.connect -> NexusClawSimulator.connect
Connect ==
    /\ connected' = TRUE
    /\ hwLast' = Last("connect", "", <<>>, "True", <<>>, <<>>)
    /\ touched' = FALSE
    /\ touch_arrived' = FALSE
    /\ UNCHANGED <<migVars, swVars, thVars, stored, pin_set, pin, slots, failed_attempts, authenticated,
                   consec_failed, lockout, unlocked_since>>

\* NexusClaw.setup -> NexusClawSimulator.setup_pin
Setup(p) ==
    IF PinTooShort(p)
    THEN /\ hwLast' = Last("setup", "", p, "ValueError", <<>>, <<>>)
         /\ touched' = FALSE
         /\ touch_arrived' = FALSE
         /\ UNCHANGED <<migVars, swVars, thVars, stored, connected, pin_set, pin, slots, failed_attempts,
                        authenticated, consec_failed, lockout, unlocked_since>>
    ELSE /\ pin' = {p}
         /\ pin_set' = TRUE
         /\ lockout' = FALSE
         /\ hwLast' = Last("setup", "", p, "True", <<>>, <<>>)
         /\ touched' = FALSE
         /\ touch_arrived' = FALSE
         /\ UNCHANGED <<migVars, swVars, thVars, stored, connected, slots, failed_attempts, authenticated,
                        consec_failed, unlocked_since>>

\* NexusClaw.authenticate -> NexusClawSimulator.verify_pin
Authenticate(p) ==
    LET v == verify_pin(pin, failed_attempts, slots, p) IN
    /\ v.failed_attempts <= MaxFailed
    /\ failed_attempts' = v.failed_attempts
    /\ slots' = v.slots
    /\ authenticated' = IF v.ok THEN TRUE ELSE authenticated
    /\ hwLast' = Last("authenticate", "", p,
                      IF v.ok THEN "True" ELSE "False", <<>>, <<>>)
    /\ touched' = FALSE
    /\ touch_arrived' = FALSE
    /\ consec_failed' = IF v.ok THEN 0 ELSE consec_failed + 1
    /\ lockout' = IF v.ok THEN lockout
                  ELSE lockout \/ (pin_set /\ consec_failed + 1 >= 3)
    /\ unlocked_since' = IF v.ok THEN TRUE ELSE unlocked_since
    /\ stored' = IF ~v.ok /\ consec_failed + 1 >= 3
                 THEN [n \in SlotNames |-> {}]
                 ELSE stored
    /\ UNCHANGED <<migVars, swVars, thVars, connected, pin_set, pin>>

\* NexusClaw.store -> NexusClawSimulator.store
Store(n, v, touch) ==
    IF StoreDenied
    THEN /\ hwLast' = Last("store", n, <<>>, "PermissionError", <<>>, <<>>)
         /\ touched' = FALSE
         /\ touch_arrived' = FALSE
         /\ UNCHANGED <<migVars, swVars, thVars, stored, connected, pin_set, pin, slots, failed_attempts,
                        authenticated, consec_failed, lockout, unlocked_since>>
    ELSE LET r == sim_store(slots, n, Encode(v)) IN
         /\ slots' = r.slots
         /\ hwLast' = Last("store", n, <<>>, r.result, <<>>, <<>>)
         /\ touched' = r.touch
         /\ touch_arrived' = (r.touch /\ touch)
         /\ stored' = IF r.result = "True"
                      THEN [stored EXCEPT ![n] = {v}]
                      ELSE stored
         /\ UNCHANGED <<migVars, swVars, thVars, connected, pin_set, pin, failed_attempts,
                        authenticated, consec_failed, lockout, unlocked_since>>

\* NexusClaw.retrieve -> NexusClawSimulator.retrieve
Retrieve(n, touch) ==
    /\ hwLast' =
         IF RetrieveDenied
         THEN Last("retrieve", n, <<>>, "PermissionError", <<>>, <<>>)
         ELSE LET r == sim_retrieve(slots, n) IN
              Last("retrieve", n, <<>>, r.result,
                   IF r.result = "ok" THEN Decode(r.value) ELSE <<>>, <<>>)
    /\ touched' = IF RetrieveDenied THEN FALSE ELSE sim_retrieve(slots, n).touch
    /\ touch_arrived' = (touched' /\ touch)
    /\ UNCHANGED <<migVars, swVars, thVars, stored, connected, pin_set, pin, slots, failed_attempts,
                   authenticated, consec_failed, lockout, unlocked_since>>

\* NexusClaw.delete -> NexusClawSimulator.delete
Delete(n) ==
    IF DeleteDenied
    THEN /\ hwLast' = Last("delete", n, <<>>, "PermissionError", <<>>, <<>>)
         /\ touched' = FALSE
         /\ touch_arrived' = FALSE
         /\ UNCHANGED <<migVars, swVars, thVars, stored, connected, pin_set, pin, slots, failed_attempts,
                        authenticated, consec_failed, lockout, unlocked_since>>
    ELSE LET r == sim_delete(slots, n) IN
         /\ slots' = r.slots
         /\ hwLast' = Last("delete", n, <<>>, r.result, <<>>, <<>>)
         /\ touched' = r.touch
         /\ touch_arrived' = FALSE
         /\ stored' = [stored EXCEPT ![n] = {}]
         /\ UNCHANGED <<migVars, swVars, thVars, connected, pin_set, pin, failed_attempts,
                        authenticated, consec_failed, lockout, unlocked_since>>

\* NexusClaw.list -> NexusClawSimulator.list_slots
List ==
    /\ hwLast' =
         IF ListDenied
         THEN Last("list", "", <<>>, "PermissionError", <<>>, <<>>)
         ELSE Last("list", "", <<>>, "ok", <<>>, list_slots(slots))
    /\ touched' = FALSE
    /\ touch_arrived' = FALSE
    /\ UNCHANGED <<migVars, swVars, thVars, stored, connected, pin_set, pin, slots, failed_attempts,
                   authenticated, consec_failed, lockout, unlocked_since>>

\* NexusClaw.disconnect: what it leaves in _authenticated
disconnect_authenticated_keep(a) == a
disconnect_authenticated(a) == FALSE

\* NexusClaw.disconnect (also __exit__) -> NexusClawSimulator.disconnect
Disconnect ==
    /\ connected' = FALSE
    /\ authenticated' = disconnect_authenticated(authenticated)
    /\ unlocked_since' = FALSE
    /\ hwLast' = Last("disconnect", "", <<>>, "ok", <<>>, <<>>)
    /\ touched' = FALSE
    /\ touch_arrived' = FALSE
    /\ UNCHANGED <<migVars, swVars, thVars, stored, pin_set, pin, slots, failed_attempts,
                   consec_failed, lockout>>

\* NexusClawSimulator.get_info: (slots_used, slots_total)
get_info_off(s) == <<0, max_slots>>
get_info(s) == <<Len(s), max_slots>>

\* NexusClaw.get_info -> NexusClawSimulator.get_info
GetInfo ==
    /\ hwLast' = Last("get_info", "", <<>>, "ok", get_info(slots), <<>>)
    /\ touched' = FALSE
    /\ touch_arrived' = FALSE
    /\ UNCHANGED <<migVars, swVars, thVars, stored, connected, pin_set, pin, slots,
                   failed_attempts, authenticated, consec_failed, lockout,
                   unlocked_since>>

\* the calls on a device whose user touches it when asked
Next ==
    \/ Connect
    \/ \E p \in Pins : Setup(p)
    \/ \E p \in Pins : Authenticate(p)
    \/ \E n \in SlotNames, v \in Values : Store(n, v, TRUE)
    \/ \E n \in SlotNames : Retrieve(n, TRUE)
    \/ \E n \in SlotNames : Delete(n)
    \/ List
    \/ GetInfo
    \/ Disconnect

\* the migration script is not run
NoMigration ==
    /\ files = <<>>
    /\ environ = <<>>
    /\ credentials_found = <<>>
    /\ migrated = 0
    /\ files_to_delete = {}
    /\ script = <<>>

\* no concurrent callers
NoThreads ==
    /\ threads = <<>>
    /\ effects = <<>>

\* the hardware demos use no vault
NoVault ==
    /\ app = "hardware"
    /\ now = 0
    /\ vault = <<>>
    /\ client_sessions = <<>>
    /\ sessions = <<>>
    /\ audit_log = <<>>
    /\ session_id = 0
    /\ swLast = <<>>
    /\ audit_view = <<>>
    /\ op_count = 0
    /\ last_set = <<>>
    /\ client_closed = FALSE
    /\ vault_file = <<>>
    /\ tampered = FALSE

Init == InitHW /\ NoVault /\ NoThreads /\ NoMigration

Spec == Init /\ [][Next]_vars

\* the calls on a device whose user may or may not touch it when asked
NextTouch ==
    \/ Connect
    \/ \E p \in Pins : Setup(p)
    \/ \E p \in Pins : Authenticate(p)
    \/ \E n \in SlotNames, v \in Values, touch \in BOOLEAN : Store(n, v, touch)
    \/ \E n \in SlotNames, touch \in BOOLEAN : Retrieve(n, touch)
    \/ \E n \in SlotNames : Delete(n)
    \/ List
    \/ GetInfo
    \/ Disconnect

SpecTouch == Init /\ [][NextTouch]_vars

-----------------------------------------------------------------------------
(* Claims about the NexusClaw hardware key                                  *)

HwOps == {"store", "retrieve", "delete", "list"}

\* C1: on a device configured with setup, once three authenticate calls in a
\* row have failed, every later authenticate with the configured PIN fails
\* until setup is run again.
C1_LockedOutUntilSetup ==
    [][(lockout /\ hwLast'.op = "authenticate" /\ {hwLast'.pin} = pin)
          => hwLast'.result = "False"]_vars

\* C2: right after the failed authenticate that brings the run of failures to
\* max_attempts, the device holds no slot: list is empty and no name can be
\* retrieved.
C2_WipeOnThirdFailure ==
    (hwLast.op = "authenticate" /\ hwLast.result = "False"
        /\ consec_failed >= max_attempts)
    => /\ slots = <<>>
       /\ list_slots(slots) = <<>>
       /\ \A n \in SlotNames : sim_retrieve(slots, n).result # "ok"

\* the third failure in a row hit a device that held slots
C2_Witness ==
    /\ hwLast.op = "authenticate"
    /\ hwLast.result = "False"
    /\ consec_failed = max_attempts
    /\ hwLast.before > 0
    /\ slots = <<>>

\* C4: while no authenticate has succeeded since the last disconnect (or
\* ever), store, retrieve, delete and list raise PermissionError and leave
\* the slots as they were.
C4_UnauthenticatedRejected ==
    [][(~unlocked_since /\ hwLast'.op \in HwOps)
          => (hwLast'.result = "PermissionError" /\ slots' = slots)]_vars

\* a call was rejected on a disconnected device that holds slots
C4_Witness ==
    /\ ~unlocked_since
    /\ hwLast.op \in HwOps
    /\ hwLast.result = "PermissionError"
    /\ slots # <<>>

\* C10: when the device holds max_slots slots, the device's store of a name
\* it does not hold fails with the capacity error and leaves every slot as it
\* was.
C10_FullStoreRejected ==
    Len(slots) = max_slots
    => \A n \in SlotNames \ Keys(slots), v \in Values :
          LET r == sim_store(slots, n, Encode(v)) IN
          r.result = "ValueError" /\ r.slots = slots

\* a store of a new name was refused by a full device
C10_Witness ==
    /\ hwLast.op = "store"
    /\ hwLast.result = "ValueError"
    /\ hwLast.before = max_slots
    /\ hwLast.name \notin Keys(slots)
    /\ Len(slots) = max_slots

\* C11: the authenticate whose failure brings the run of failures to
\* max_attempts (or beyond, on the wiped device) reports an outcome other than
\* the one an ordinary wrong PIN gets.
C11_WipeReportedDistinctly ==
    (hwLast.op = "authenticate" /\ hwLast.result # "True"
        /\ consec_failed >= max_attempts)
    => hwLast.result # "False"

\* C12: setup with a PIN shorter than 4 characters raises an error and leaves
\* the device as it was: the same PIN, and only it, authenticates afterwards.
C12_ShortPinRejected ==
    [][(hwLast'.op = "setup" /\ Len(hwLast'.pin) < 4)
          => /\ hwLast'.result = "ValueError"
             /\ pin' = pin
             /\ pin_set' = pin_set
             /\ slots' = slots
             /\ failed_attempts' = failed_attempts
             /\ authenticated' = authenticated
             /\ connected' = connected
             /\ \A q \in Pins :
                   verify_pin(pin', failed_attempts', slots', q).ok
                     <=> verify_pin(pin, failed_attempts, slots, q).ok]_vars

\* a short PIN was refused on a device configured with "1234"
C12_Witness ==
    /\ hwLast.op = "setup"
    /\ Len(hwLast.pin) < 4
    /\ hwLast.result = "ValueError"
    /\ pin_set
    /\ pin = {<<1, 2, 3, 4>>}

\* C13: on a configured device that has not been wiped, a further setup
\* leaves the configured PIN in place.
C13_SetupOneTime ==
    [][(pin_set /\ ~lockout /\ hwLast'.op = "setup") => pin' = pin]_vars

\* C14: a store, retrieve or delete that took effect went through the touch
\* confirmation.
C14_TouchBeforeEffect ==
    (hwLast.op \in {"store", "retrieve", "delete"}
        /\ hwLast.result \in {"True", "ok"})
    => touched

\* C22: a NexusClaw that is authenticated (UNLOCKED) is connected.
C22_UnlockedImpliesConnected == authenticated => connected

\* C23: after a setup that succeeded the device does not hold the PIN itself
\* as its verifier.
C23_PinNotStored ==
    (hwLast.op = "setup" /\ hwLast.result = "True") => pin # {hwLast.pin}

\* C28: an authenticate that succeeds leaves failed_attempts at 0, and an
\* authenticate changes the slots only when it is the third failure in a row
\* or a later one.
C28_OnlyFailuresInARowWipe ==
    [][hwLast'.op = "authenticate"
          => /\ hwLast'.result = "True" => failed_attempts' = 0
             /\ consec_failed' < max_attempts => slots' = slots]_vars

\* two failures after a success: the slots are still there
C28_Witness ==
    /\ hwLast.op = "authenticate"
    /\ hwLast.result = "False"
    /\ authenticated
    /\ consec_failed = 2
    /\ slots # <<>>

\* C30: the number of occupied slots never exceeds max_slots.
C30_SlotsBounded == Len(slots) <= max_slots

\* a full device was offered one more name
C30_Witness ==
    /\ Len(slots) = max_slots
    /\ hwLast.op = "store"
    /\ hwLast.result = "ValueError"
    /\ Cardinality(Keys(slots)) = max_slots

DeviceState ==
    <<connected, pin_set, pin, slots, failed_attempts, authenticated>>

\* C25: a store or retrieve that reaches the touch wait while no touch
\* arrives ends with a failure, returns nothing and leaves the device as it
\* was.
C25_NoTouchNoEffect ==
    [][(hwLast'.op \in {"store", "retrieve"} /\ touched' /\ ~touch_arrived')
          => /\ hwLast'.result \notin {"True", "ok"}
             /\ hwLast'.out = <<>>
             /\ DeviceState' = DeviceState]_vars

\* C26: get_info succeeds in every device state, changes no device state,
\* and reports slots_used as the number of stored slots and slots_total as
\* max_slots.
C26_DiscoveryAnywhere ==
    [][hwLast'.op = "get_info"
          => /\ hwLast'.result = "ok"
             /\ DeviceState' = DeviceState
             /\ hwLast'.out[1] = Cardinality(Keys(slots))
             /\ hwLast'.out[2] = max_slots]_vars

\* get_info on a disconnected, locked device that holds slots
C26_Witness ==
    /\ hwLast.op = "get_info"
    /\ ~connected
    /\ ~authenticated
    /\ hwLast.out[1] > 0

\* C29: on an unlocked device, a retrieve of a name whose last store
\* succeeded, with no delete of the name and no wipe since, returns exactly
\* the value stored.
C29_HardwareRoundTrip ==
    [][(hwLast'.op = "retrieve" /\ unlocked_since
           /\ stored[hwLast'.name] # {})
          => /\ hwLast'.result = "ok"
             /\ {hwLast'.out} = stored[hwLast'.name]]_vars

\* a non-ASCII value stored over an earlier one came back
C29_Witness ==
    /\ hwLast.op = "retrieve"
    /\ hwLast.result = "ok"
    /\ hwLast.out = <<233>>
    /\ stored[hwLast.name] = {<<233>>}
    /\ Len(slots) = max_slots

\* C31: once an authenticate has returned False, and until an authenticate
\* succeeds, store, retrieve, delete and list raise PermissionError; an
\* authenticate that succeeded earlier makes no difference.
C31_FailedAuthLocks ==
    [][(consec_failed > 0 /\ hwLast'.op \in HwOps)
          => hwLast'.result = "PermissionError"]_vars

\* C35: the device's store of a name that already holds a slot succeeds at
\* every occupancy, keeps the number of slots and puts the new value in the
\* slot.
C35_OverwriteAlwaysSucceeds ==
    \A n \in Keys(slots), v \in Values :
       LET r == sim_store(slots, n, Encode(v)) IN
       /\ r.result = "True"
       /\ Len(r.slots) = Len(slots)
       /\ DictGet(r.slots, n) = Encode(v)

\* C37: failed_attempts is always within 0..max_attempts.
C37_FailedAttemptsBounded == failed_attempts \in 0..max_attempts

\* C38: disconnect leaves the NexusClaw unauthenticated and leaves the
\* slots, the configured PIN and failed_attempts as they were; from then on,
\* while no authenticate has succeeded, the NexusClaw stays unauthenticated
\* and store, retrieve, delete and list raise PermissionError.
C38_DisconnectRevokesOnly ==
    [][/\ hwLast'.op = "disconnect"
          => /\ ~authenticated'
             /\ slots' = slots
             /\ pin' = pin
             /\ pin_set' = pin_set
             /\ failed_attempts' = failed_attempts
       /\ ~unlocked_since' => ~authenticated'
       /\ (~unlocked_since /\ hwLast'.op \in HwOps)
          => hwLast'.result = "PermissionError"]_vars

\* after a disconnect of an unlocked device with slots and a failure on its
\* counter, a wrong PIN was refused and the list that followed was rejected
C38_Witness ==
    /\ hwLast.op = "list"
    /\ hwLast.result = "PermissionError"
    /\ ~unlocked_since
    /\ ~connected
    /\ slots # <<>>
    /\ pin_set
    /\ failed_attempts = 2

-----------------------------------------------------------------------------
(* The vault engine behind AVPClient: sessions bound to one workspace and   *)
(* valid while now < expires_at, secrets keyed by (workspace, name).        *)

\* session lifetime; 3600 s by default, scaled down so that a session expires
SessionTTL == 1
\* the clock stops here
MaxTime == 2
\* number of credential operations in one run
MaxOps == 3

Workspaces == {"researcher", "writer"}
ProviderWorkspace == "langchain"
AllWorkspaces == Workspaces \cup {ProviderWorkspace}
Names == {"anthropic_api_key", "temp_token"}

\* AVPClient.authenticate(workspace): the sessions after issuing a new one
client_authenticate(cs, t, w) ==
    Append(cs, [workspace |-> w, expires_at |-> t + SessionTTL,
                closed |-> FALSE])

\* a session is valid only while now < expires_at and it is not closed
SessionValid(cs, t, sid) ==
    /\ sid \in 1..Len(cs)
    /\ t < cs[sid].expires_at
    /\ ~cs[sid].closed

\* AVPClient.close(): closes every session of the client, any number of times
client_close(closed, cs) ==
    [result |-> "ok", closed |-> TRUE,
     cs |-> [i \in 1..Len(cs) |-> [cs[i] EXCEPT !.closed = TRUE]]]

\* AVPClient.retrieve(session_id, name)
client_retrieve(cs, vlt, t, sid, n) ==
    IF ~SessionValid(cs, t, sid)
    THEN [result |-> "SessionExpiredError", value |-> <<>>]
    ELSE LET s == vlt[cs[sid].workspace] IN
         IF n \notin Keys(s)
         THEN [result |-> "NotFoundError", value |-> <<>>]
         ELSE [result |-> "ok", value |-> DictGet(s, n)]

\* AVPClient.store(session_id, name, value): destructive overwrite, version 1
client_store(cs, vlt, t, sid, n, v) ==
    IF ~SessionValid(cs, t, sid)
    THEN [result |-> "SessionExpiredError", vault |-> vlt]
    ELSE LET w == cs[sid].workspace
             s == vlt[w]
             e == [name |-> n, value |-> v, version |-> 1]
         IN [result |-> "ok",
             vault |-> [vlt EXCEPT ![w] =
                          IF n \in Keys(s)
                          THEN [s EXCEPT ![IndexOf(s, n)] = e]
                          ELSE Append(s, e)]]

\* AVPClient.rotate(session_id, name, value): version + 1, value overwritten
client_rotate(cs, vlt, t, sid, n, v) ==
    IF ~SessionValid(cs, t, sid)
    THEN [result |-> "SessionExpiredError", vault |-> vlt]
    ELSE LET w == cs[sid].workspace
             s == vlt[w]
         IN IF n \notin Keys(s)
            THEN [result |-> "NotFoundError", vault |-> vlt]
            ELSE [result |-> "ok",
                  vault |-> [vlt EXCEPT ![w] =
                               [s EXCEPT ![IndexOf(s, n)] =
                                  [name |-> n, value |-> v,
                                   version |-> s[IndexOf(s, n)].version + 1]]]]

\* AVPClient.delete(session_id, name): whether a secret was removed
client_delete(cs, vlt, t, sid, n) ==
    IF ~SessionValid(cs, t, sid)
    THEN [result |-> "SessionExpiredError", deleted |-> FALSE, vault |-> vlt]
    ELSE LET w == cs[sid].workspace IN
         [result |-> "ok", deleted |-> n \in Keys(vlt[w]),
          vault |-> [vlt EXCEPT ![w] = DictDel(vlt[w], n)]]

\* AVPClient.list_secrets(session_id): names only, insertion order
client_list_secrets(cs, vlt, t, sid) ==
    IF ~SessionValid(cs, t, sid)
    THEN [result |-> "SessionExpiredError", names |-> <<>>]
    ELSE [result |-> "ok", names |-> list_slots(vlt[cs[sid].workspace])]

-----------------------------------------------------------------------------
(* AVPCredentialManager (avp_crewai.py)                                     *)

\* AVPCredentialManager.__init__: the vault password kept in self._password
password == "vault-password"

\* _log_access: the entry appended
Entry_with_value(t, w, action, cred) ==
    [timestamp |-> t, workspace |-> w, action |-> action, credential |-> cred,
     value |-> password]
Entry(t, w, action, cred) ==
    [timestamp |-> t, workspace |-> w, action |-> action, credential |-> cred]

\* _log_access(workspace, action, credential): the log after the call
log_access_front(l, t, w, action, cred) == <<Entry(t, w, action, cred)>> \o l
log_access(l, t, w, action, cred) == Append(l, Entry(t, w, action, cred))

\* _get_session: "if workspace not in self._sessions"
NeedsSession_renew(sess, cs, t, w) ==
    \/ w \notin DOMAIN sess
    \/ ~SessionValid(cs, t, sess[w])
NeedsSession(sess, cs, t, w) == w \notin DOMAIN sess

\* _get_session: "return self._sessions[workspace]"
SessionFor_any(sess, w) == sess[CHOOSE x \in DOMAIN sess : TRUE]
SessionFor(sess, w) == sess[w]

\* _get_session(workspace): the session id returned and the manager's and the
\* client's sessions and the audit log after the call
get_session(w) ==
    IF NeedsSession(sessions, client_sessions, now, w)
    THEN LET cs == client_authenticate(client_sessions, now, w)
             sess == [x \in DOMAIN sessions \cup {w} |->
                        IF x = w THEN Len(cs) ELSE sessions[x]]
         IN [sid |-> SessionFor(sess, w), sessions |-> sess, cs |-> cs,
             log |-> log_access(audit_log, now, w, "session_created", "")]
    ELSE [sid |-> SessionFor(sessions, w), sessions |-> sessions,
          cs |-> client_sessions, log |-> audit_log]

\* AVPCredentialManager.get: "return result.value.decode()"
Returned_raw(b) == b
Returned(b) == Decode(b)

SwLast(sid, op, w, n, r, c, o, ns) ==
    [sid |-> sid, op |-> op, workspace |-> w, name |-> n, result |-> r, cause |-> c,
     out |-> o, names |-> ns, at |-> now]

NoneSet == [k \in AllWorkspaces \X Names |-> {}]

InitVault ==
    /\ now = 0
    /\ vault = [w \in AllWorkspaces |-> <<>>]
    /\ op_count = 0
    /\ last_set = NoneSet
    /\ swLast = SwLast(0, "init", "", "", "", "", <<>>, <<>>)
    /\ audit_view = <<>>
    /\ client_closed = FALSE
    /\ vault_file = <<>>
    /\ tampered = FALSE

\* AVPCredentialManager.__init__
InitManager ==
    /\ app = "manager"
    /\ client_sessions = <<>>
    /\ sessions = <<>>
    /\ audit_log = <<>>
    /\ session_id = 0

\* AVPCredentialManager.get(workspace, name)
MgrGet(w, n) ==
    LET g == get_session(w)
        r == client_retrieve(g.cs, vault, now, g.sid, n)
    IN /\ app = "manager"
       /\ op_count < MaxOps
       /\ op_count' = op_count + 1
       /\ sessions' = g.sessions
       /\ client_sessions' = g.cs
       /\ audit_log' = IF r.result = "ok"
                       THEN log_access(g.log, now, w, "retrieve", n)
                       ELSE g.log
       /\ swLast' = SwLast(g.sid, "get", w, n, r.result, r.result,
                           IF r.result = "ok" THEN Returned(r.value) ELSE <<>>,
                           <<>>)
       /\ audit_view' = <<>>
       /\ UNCHANGED <<migVars, hwVars, thVars, fileVars, app, now, vault, session_id, last_set>>

\* AVPCredentialManager.set(workspace, name, value)
MgrSet(w, n, v) ==
    LET g == get_session(w)
        r == client_store(g.cs, vault, now, g.sid, n, Encode(v))
    IN /\ app = "manager"
       /\ op_count < MaxOps
       /\ op_count' = op_count + 1
       /\ sessions' = g.sessions
       /\ client_sessions' = g.cs
       /\ vault' = r.vault
       /\ audit_log' = IF r.result = "ok"
                       THEN log_access(g.log, now, w, "store", n)
                       ELSE g.log
       /\ swLast' = SwLast(g.sid, "set", w, n, r.result, r.result, <<>>, <<>>)
       /\ last_set' = [last_set EXCEPT ![<<w, n>>] = {v}]
       /\ audit_view' = <<>>
       /\ UNCHANGED <<migVars, hwVars, thVars, fileVars, app, now, session_id>>

\* AVPCredentialManager.rotate: "self._client.rotate(session_id, name, ...)"
rotate_call_store(cs, vlt, t, sid, n, b) == client_store(cs, vlt, t, sid, n, b)
rotate_call(cs, vlt, t, sid, n, b) == client_rotate(cs, vlt, t, sid, n, b)

\* AVPCredentialManager.rotate(workspace, name, new_value)
MgrRotate(w, n, v) ==
    LET g == get_session(w)
        r == rotate_call(g.cs, vault, now, g.sid, n, Encode(v))
    IN /\ app = "manager"
       /\ op_count < MaxOps
       /\ op_count' = op_count + 1
       /\ sessions' = g.sessions
       /\ client_sessions' = g.cs
       /\ vault' = r.vault
       /\ audit_log' = IF r.result = "ok"
                       THEN log_access(g.log, now, w, "rotate", n)
                       ELSE g.log
       /\ swLast' = SwLast(g.sid, "rotate", w, n, r.result, r.result, <<>>, <<>>)
       /\ last_set' = [last_set EXCEPT ![<<w, n>>] = {}]
       /\ audit_view' = <<>>
       /\ UNCHANGED <<migVars, hwVars, thVars, fileVars, app, now, session_id>>

\* AVPCredentialManager.list_credentials(workspace)
MgrList(w) ==
    LET g == get_session(w)
        r == client_list_secrets(g.cs, vault, now, g.sid)
    IN /\ app = "manager"
       /\ op_count < MaxOps
       /\ op_count' = op_count + 1
       /\ sessions' = g.sessions
       /\ client_sessions' = g.cs
       /\ audit_log' = g.log
       /\ swLast' = SwLast(g.sid, "list", w, "", r.result, r.result, <<>>, r.names)
       /\ audit_view' = <<>>
       /\ UNCHANGED <<migVars, hwVars, thVars, fileVars, app, now, vault, session_id, last_set>>

\* the demos' delete: manager._get_session(ws), manager._client.delete(...)
MgrDelete(w, n) ==
    LET g == get_session(w)
        r == client_delete(g.cs, vault, now, g.sid, n)
    IN /\ app = "manager"
       /\ op_count < MaxOps
       /\ op_count' = op_count + 1
       /\ sessions' = g.sessions
       /\ client_sessions' = g.cs
       /\ vault' = r.vault
       /\ audit_log' = g.log
       /\ swLast' = SwLast(g.sid, "delete", w, n,
                           IF r.result = "ok"
                           THEN (IF r.deleted THEN "True" ELSE "False")
                           ELSE r.result,
                           r.result, <<>>, <<>>)
       /\ last_set' = [last_set EXCEPT ![<<w, n>>] = {}]
       /\ audit_view' = <<>>
       /\ UNCHANGED <<migVars, hwVars, thVars, fileVars, app, now, session_id>>

\* AVPCredentialManager.get_audit_log: "return self._audit_log.copy()"
get_audit_log(l) == l

\* AVPCredentialManager.get_audit_log()
MgrGetAuditLog ==
    /\ app = "manager"
    /\ op_count < MaxOps
    /\ audit_view' = get_audit_log(audit_log)
    /\ swLast' = SwLast(0, "get_audit_log", "", "", "ok", "ok", <<>>, <<>>)
    /\ UNCHANGED <<migVars, hwVars, thVars, fileVars, app, now, vault, client_sessions, sessions,
                   audit_log, session_id, op_count, last_set>>

\* close of the manager and of the provider:
\* "if self._client: self._client.close()"
close_call_once(closed, cs) ==
    IF closed THEN [result |-> "ValueError", closed |-> closed, cs |-> cs]
    ELSE client_close(closed, cs)
close_call(closed, cs) == client_close(closed, cs)

\* AVPCredentialManager.close(), also __exit__
MgrClose ==
    LET r == close_call(client_closed, client_sessions) IN
    /\ app = "manager"
    /\ client_closed' = r.closed
    /\ client_sessions' = r.cs
    /\ swLast' = SwLast(0, "close", "", "", r.result, r.result, <<>>, <<>>)
    /\ audit_view' = <<>>
    /\ UNCHANGED <<migVars, hwVars, thVars, vault_file, tampered, app, now, vault, sessions,
                   audit_log, session_id, op_count, last_set>>

\* a second of wall-clock time passes
Tick ==
    /\ app \in {"manager", "provider", "migrate"}
    /\ now < MaxTime
    /\ now' = now + 1
    /\ UNCHANGED <<migVars, hwVars, thVars, fileVars, audit_view, app, vault, client_sessions, sessions, audit_log,
                   session_id, swLast, op_count, last_set>>

-----------------------------------------------------------------------------
(* AVPCredentialProvider (avp_langchain.py)                                 *)

\* AVPCredentialProvider.__init__ -> _connect: authenticate at construction
InitProvider ==
    /\ app = "provider"
    /\ client_sessions = client_authenticate(<<>>, 0, ProviderWorkspace)
    /\ session_id = 1
    /\ sessions = <<>>
    /\ audit_log = <<>>

\* AVPCredentialProvider.get: "except Exception as e: raise KeyError(...)"
get_report(cause) == IF cause = "ok" THEN "ok" ELSE "KeyError"

\* AVPCredentialProvider.get(name)
ProvGet(n) ==
    LET r == client_retrieve(client_sessions, vault, now, session_id, n) IN
    /\ app = "provider"
    /\ op_count < MaxOps
    /\ op_count' = op_count + 1
    /\ swLast' = SwLast(session_id, "get", ProviderWorkspace, n, get_report(r.result),
                        r.result,
                        IF r.result = "ok" THEN Returned(r.value) ELSE <<>>,
                        <<>>)
    /\ audit_view' = <<>>
    /\ UNCHANGED <<migVars, hwVars, thVars, fileVars, app, now, vault, client_sessions, sessions, audit_log,
                   session_id, last_set>>

\* AVPCredentialProvider.set(name, value)
ProvSet(n, v) ==
    LET r == client_store(client_sessions, vault, now, session_id, n, Encode(v)) IN
    /\ app = "provider"
    /\ op_count < MaxOps
    /\ op_count' = op_count + 1
    /\ vault' = r.vault
    /\ swLast' = SwLast(session_id, "set", ProviderWorkspace, n, r.result, r.result,
                        <<>>, <<>>)
    /\ last_set' = [last_set EXCEPT ![<<ProviderWorkspace, n>>] = {v}]
    /\ audit_view' = <<>>
    /\ UNCHANGED <<migVars, hwVars, thVars, fileVars, app, now, client_sessions, sessions, audit_log, session_id>>

\* AVPCredentialProvider.delete(name)
ProvDelete(n) ==
    LET r == client_delete(client_sessions, vault, now, session_id, n) IN
    /\ app = "provider"
    /\ op_count < MaxOps
    /\ op_count' = op_count + 1
    /\ vault' = r.vault
    /\ swLast' = SwLast(session_id, "delete", ProviderWorkspace, n,
                        IF r.result = "ok"
                        THEN (IF r.deleted THEN "True" ELSE "False")
                        ELSE r.result,
                        r.result, <<>>, <<>>)
    /\ last_set' = [last_set EXCEPT ![<<ProviderWorkspace, n>>] = {}]
    /\ audit_view' = <<>>
    /\ UNCHANGED <<migVars, hwVars, thVars, fileVars, app, now, client_sessions, sessions, audit_log, session_id>>

\* AVPCredentialProvider.list()
ProvList ==
    LET r == client_list_secrets(client_sessions, vault, now, session_id) IN
    /\ app = "provider"
    /\ op_count < MaxOps
    /\ op_count' = op_count + 1
    /\ swLast' = SwLast(session_id, "list", ProviderWorkspace, "", r.result, r.result,
                        <<>>, r.names)
    /\ audit_view' = <<>>
    /\ UNCHANGED <<migVars, hwVars, thVars, fileVars, app, now, vault, client_sessions, sessions, audit_log,
                   session_id, last_set>>

\* AVPCredentialProvider.rotate(name, new_value)
ProvRotate(n, v) ==
    LET r == client_rotate(client_sessions, vault, now, session_id, n, Encode(v)) IN
    /\ app = "provider"
    /\ op_count < MaxOps
    /\ op_count' = op_count + 1
    /\ vault' = r.vault
    /\ swLast' = SwLast(session_id, "rotate", ProviderWorkspace, n, r.result, r.result,
                        <<>>, <<>>)
    /\ last_set' = [last_set EXCEPT ![<<ProviderWorkspace, n>>] = {}]
    /\ audit_view' = <<>>
    /\ UNCHANGED <<migVars, hwVars, thVars, fileVars, app, now, client_sessions, sessions, audit_log, session_id>>

\* AVPCredentialProvider.close(), also __exit__
ProvClose ==
    LET r == close_call(client_closed, client_sessions) IN
    /\ app = "provider"
    /\ client_closed' = r.closed
    /\ client_sessions' = r.cs
    /\ swLast' = SwLast(0, "close", ProviderWorkspace, "", r.result, r.result,
                        <<>>, <<>>)
    /\ audit_view' = <<>>
    /\ UNCHANGED <<migVars, hwVars, thVars, vault_file, tampered, app, now, vault, sessions,
                   audit_log, session_id, op_count, last_set>>

\* the vault demos use no hardware key
InitSW ==
    InitHW /\ InitVault /\ NoThreads /\ NoMigration /\ (InitManager \/ InitProvider)

NextSW ==
    \/ \E w \in Workspaces, n \in Names : MgrGet(w, n)
    \/ \E w \in Workspaces, n \in Names, v \in Values : MgrSet(w, n, v)
    \/ \E w \in Workspaces, n \in Names, v \in Values : MgrRotate(w, n, v)
    \/ \E w \in Workspaces : MgrList(w)
    \/ \E w \in Workspaces, n \in Names : MgrDelete(w, n)
    \/ MgrGetAuditLog
    \/ \E n \in Names : ProvGet(n)
    \/ \E n \in Names, v \in Values : ProvSet(n, v)
    \/ \E n \in Names : ProvDelete(n)
    \/ ProvList
    \/ \E n \in Names, v \in Values : ProvRotate(n, v)
    \/ Tick

SpecVault == InitSW /\ [][NextSW]_vars

-----------------------------------------------------------------------------
(* The hardware key and the credential provider side by side               *)

InitDelete == Init \/ (InitSW /\ app = "provider")

NextDelete ==
    \/ app = "hardware" /\ Connect
    \/ app = "hardware" /\ \E p \in Pins : Setup(p)
    \/ app = "hardware" /\ \E p \in Pins : Authenticate(p)
    \/ app = "hardware" /\ \E n \in SlotNames, v \in Values : Store(n, v, TRUE)
    \/ app = "hardware" /\ \E n \in SlotNames : Retrieve(n, TRUE)
    \/ app = "hardware" /\ \E n \in SlotNames : Delete(n)
    \/ app = "hardware" /\ List
    \/ app = "hardware" /\ GetInfo
    \/ app = "hardware" /\ Disconnect
    \/ \E n \in Names : ProvGet(n)
    \/ \E n \in Names, v \in Values : ProvSet(n, v)
    \/ \E n \in Names : ProvDelete(n)
    \/ ProvList
    \/ \E n \in Names, v \in Values : ProvRotate(n, v)
    \/ app = "provider" /\ Tick

SpecDelete == InitDelete /\ [][NextDelete]_vars

-----------------------------------------------------------------------------
(* store, delete, rotate and list on the hardware key, the manager and the  *)
(* provider                                                                 *)

InitList == Init \/ InitSW

NextList ==
    \/ app = "hardware" /\ \E p \in Pins : Setup(p)
    \/ app = "hardware" /\ \E p \in Pins : Authenticate(p)
    \/ app = "hardware" /\ \E n \in SlotNames, v \in Values : Store(n, v, TRUE)
    \/ app = "hardware" /\ \E n \in SlotNames : Delete(n)
    \/ app = "hardware" /\ List
    \/ \E w \in Workspaces, n \in Names, v \in Values : MgrSet(w, n, v)
    \/ \E w \in Workspaces, n \in Names, v \in Values : MgrRotate(w, n, v)
    \/ \E w \in Workspaces, n \in Names : MgrDelete(w, n)
    \/ \E w \in Workspaces : MgrList(w)
    \/ \E n \in Names, v \in Values : ProvSet(n, v)
    \/ \E n \in Names, v \in Values : ProvRotate(n, v)
    \/ \E n \in Names : ProvDelete(n)
    \/ ProvList
    \/ Tick

SpecList == InitList /\ [][NextList]_vars

-----------------------------------------------------------------------------
(* The manager and the provider up to and including close: the credential   *)
(* operations run on the open client, close and __exit__ may follow at any  *)
(* time and any number of times                                             *)

NextClose ==
    \/ ~client_closed /\ \E w \in Workspaces, n \in Names : MgrGet(w, n)
    \/ ~client_closed
       /\ \E w \in Workspaces, n \in Names, v \in Values : MgrSet(w, n, v)
    \/ ~client_closed
       /\ \E w \in Workspaces, n \in Names, v \in Values : MgrRotate(w, n, v)
    \/ ~client_closed /\ \E w \in Workspaces : MgrList(w)
    \/ ~client_closed /\ \E w \in Workspaces, n \in Names : MgrDelete(w, n)
    \/ ~client_closed /\ \E n \in Names : ProvGet(n)
    \/ ~client_closed /\ \E n \in Names, v \in Values : ProvSet(n, v)
    \/ ~client_closed /\ \E n \in Names : ProvDelete(n)
    \/ ~client_closed /\ ProvList
    \/ ~client_closed /\ \E n \in Names, v \in Values : ProvRotate(n, v)
    \/ MgrClose
    \/ ProvClose
    \/ Tick

SpecClose == InitSW /\ [][NextClose]_vars

-----------------------------------------------------------------------------
(* The EncryptedFile vault on disk (FileBackend of package avp): the        *)
(* serialized secrets of a workspace under an authenticated-encryption      *)
(* envelope.  Bytes are 0..255.                                             *)

\* the key derived from the vault password
Key == 17

NameCodes == <<"anthropic_api_key", "temp_token">>
CodeOf(n) == CHOOSE c \in 1..Len(NameCodes) : NameCodes[c] = n

\* a secret on disk: name code, version, length of the value, two value bytes
EntryBytes(e) ==
    <<CodeOf(e.name), e.version, Len(e.value)>>
      \o [i \in 1..2 |-> IF i <= Len(e.value) THEN e.value[i] ELSE 0]

RECURSIVE Serialize(_)
Serialize(s) ==
    IF s = <<>> THEN <<>> ELSE EntryBytes(Head(s)) \o Serialize(Tail(s))

RECURSIVE Deserialize(_)
Deserialize(b) ==
    IF Len(b) < 5 THEN <<>>
    ELSE <<[name |-> IF b[1] \in 1..Len(NameCodes) THEN NameCodes[b[1]] ELSE "?",
            value |-> SubSeq(b, 4, 3 + (IF b[3] <= 2 THEN b[3] ELSE 2)),
            version |-> b[2]]>>
           \o Deserialize(SubSeq(b, 6, Len(b)))

Encrypt(b) == [i \in 1..Len(b) |-> (b[i] + Key) % 256]
Decrypt(c) == [i \in 1..Len(c) |-> (c[i] + 256 - Key) % 256]

RECURSIVE ByteSum(_)
ByteSum(c) == IF c = <<>> THEN 0 ELSE (Head(c) + ByteSum(Tail(c))) % 256

\* the authentication tag over the ciphertext
Mac(c) == (ByteSum(c) + Key) % 256

\* the envelope: ciphertext followed by its tag
Seal(plain) == Encrypt(plain) \o <<Mac(Encrypt(plain))>>

\* opening the envelope: the tag is verified before anything is decrypted
Open(blob) ==
    IF blob = <<>> \/ Mac(SubSeq(blob, 1, Len(blob) - 1)) # blob[Len(blob)]
    THEN [result |-> "IntegrityError", plain |-> <<>>]
    ELSE [result |-> "ok", plain |-> Decrypt(SubSeq(blob, 1, Len(blob) - 1))]

\* what 01_setup_credentials left in the provider's workspace
InitialContents ==
    { <<>>,
      <<[name |-> "anthropic_api_key", value |-> Encode(<<65>>), version |-> 1]>>,
      <<[name |-> "temp_token", value |-> Encode(<<233>>), version |-> 1],
        [name |-> "anthropic_api_key", value |-> Encode(<<65>>), version |-> 2]>> }

\* the byte changes offered: one bit, the top bit, all bits up by one
Flips == {1, 128, 255}

InitTamper ==
    /\ InitHW
    /\ NoThreads
    /\ NoMigration
    /\ app = "provider"
    /\ now = 0
    /\ \E c \in InitialContents :
          /\ vault = [w \in AllWorkspaces |->
                        IF w = ProviderWorkspace THEN c ELSE <<>>]
          /\ vault_file = Seal(Serialize(c))
          /\ last_set = [k \in AllWorkspaces \X Names |->
                           IF k[1] = ProviderWorkspace /\ k[2] \in Keys(c)
                           THEN {Decode(DictGet(c, k[2]))} ELSE {}]
    /\ tampered = FALSE
    /\ client_closed = FALSE
    /\ client_sessions = <<>>
    /\ session_id = 0
    /\ sessions = <<>>
    /\ audit_log = <<>>
    /\ audit_view = <<>>
    /\ op_count = 0
    /\ swLast = SwLast(0, "init", "", "", "", "", <<>>, <<>>)

\* one byte of the vault file is changed on disk
Tamper(i, d) ==
    /\ ~tampered
    /\ i \in 1..Len(vault_file)
    /\ vault_file' = [vault_file EXCEPT ![i] = (@ + d) % 256]
    /\ tampered' = TRUE
    /\ UNCHANGED <<migVars, hwVars, thVars, client_closed, app, now, vault, client_sessions,
                   sessions, audit_log, session_id, swLast, audit_view, op_count,
                   last_set>>

\* AVPCredentialProvider._connect: an error of authenticate leaves _connect
\* and the constructor as it is
connect_report_ok(cause) == "ok"
connect_report(cause) == cause

\* AVPCredentialProvider.__init__ -> _connect: FileBackend, AVPClient,
\* authenticate(workspace), _session_id
ProvConnect ==
    LET o == Open(vault_file)
        cs == client_authenticate(client_sessions, now, ProviderWorkspace)
    IN /\ app = "provider"
       /\ session_id = 0
       /\ IF o.result = "ok"
          THEN /\ vault' = [vault EXCEPT ![ProviderWorkspace] =
                                          Deserialize(o.plain)]
               /\ client_sessions' = cs
               /\ session_id' = Len(cs)
          ELSE UNCHANGED <<vault, client_sessions, session_id>>
       /\ swLast' = SwLast(0, "connect", ProviderWorkspace, "",
                           connect_report(o.result), o.result, <<>>, <<>>)
       /\ audit_view' = <<>>
       /\ UNCHANGED <<migVars, hwVars, thVars, fileVars, app, now, sessions, audit_log,
                      op_count, last_set>>

NextTamper ==
    \/ \E i \in 1..Len(vault_file), d \in Flips : Tamper(i, d)
    \/ ProvConnect
    \/ session_id # 0 /\ \E n \in Names : ProvGet(n)
    \/ session_id # 0 /\ ProvList

SpecTamper == InitTamper /\ [][NextTamper]_vars

-----------------------------------------------------------------------------
(* Several threads calling get, set and rotate on one AVPCredentialManager  *)

Threads == {"t1", "t2"}
ThreadOps == {"get", "set", "rotate"}

\* the action name get, set and rotate pass to _log_access
LoggedAs(op) ==
    CASE op = "get" -> "retrieve"
      [] op = "set" -> "store"
      [] op = "rotate" -> "rotate"

Idle ==
    [pc |-> "idle", op |-> "", workspace |-> "", name |-> "", value |-> <<>>,
     session |-> 0, sid |-> 0]

InitThreads ==
    /\ InitHW
    /\ NoMigration
    /\ InitVault
    /\ InitManager
    /\ threads = [t \in Threads |-> Idle]
    /\ effects = <<>>

\* a thread enters get, set or rotate and, in _get_session, evaluates
\* "if workspace not in self._sessions"
ThBegin(t, op, w, n, v) ==
    /\ threads[t].pc = "idle"
    /\ threads' = [threads EXCEPT ![t] =
                     [pc |-> IF NeedsSession(sessions, client_sessions, now, w)
                             THEN "authenticate" ELSE "return",
                      op |-> op, workspace |-> w, name |-> n,
                      value |-> IF op = "get" THEN <<>> ELSE v,
                      session |-> 0, sid |-> 0]]
    /\ UNCHANGED <<migVars, hwVars, fileVars, app, now, vault, client_sessions, sessions,
                   audit_log, session_id, swLast, audit_view, op_count,
                   last_set, effects>>

\* _get_session: "session = self._client.authenticate(workspace=workspace)"
ThAuthenticate(t) ==
    LET th == threads[t]
        cs == client_authenticate(client_sessions, now, th.workspace)
    IN /\ th.pc = "authenticate"
       /\ client_sessions' = cs
       /\ threads' = [threads EXCEPT ![t].pc = "assign",
                                     ![t].session = Len(cs)]
       /\ UNCHANGED <<migVars, hwVars, fileVars, app, now, vault, sessions, audit_log,
                      session_id, swLast, audit_view, op_count, last_set,
                      effects>>

\* _get_session: "self._sessions[workspace] = session.session_id"
ThAssign(t) ==
    LET th == threads[t] IN
    /\ th.pc = "assign"
    /\ sessions' = [x \in DOMAIN sessions \cup {th.workspace} |->
                      IF x = th.workspace THEN th.session ELSE sessions[x]]
    /\ threads' = [threads EXCEPT ![t].pc = "session_log"]
    /\ UNCHANGED <<migVars, hwVars, fileVars, app, now, vault, client_sessions, audit_log,
                   session_id, swLast, audit_view, op_count, last_set, effects>>

\* _get_session: "self._log_access(workspace, "session_created")"
ThSessionLog(t) ==
    LET th == threads[t] IN
    /\ th.pc = "session_log"
    /\ audit_log' = log_access(audit_log, now, th.workspace, "session_created",
                               "")
    /\ threads' = [threads EXCEPT ![t].pc = "return"]
    /\ UNCHANGED <<migVars, hwVars, fileVars, app, now, vault, client_sessions, sessions,
                   session_id, swLast, audit_view, op_count, last_set, effects>>

\* _get_session: "return self._sessions[workspace]", assigned to session_id
ThReturn(t) ==
    LET th == threads[t] IN
    /\ th.pc = "return"
    /\ threads' = [threads EXCEPT ![t].pc = "call",
                                  ![t].sid = SessionFor(sessions, th.workspace)]
    /\ UNCHANGED <<migVars, hwVars, fileVars, app, now, vault, client_sessions, sessions,
                   audit_log, session_id, swLast, audit_view, op_count,
                   last_set, effects>>

\* the thread's call on the client: retrieve, store or rotate; an exception
\* leaves the method
ThCall(t) ==
    LET th == threads[t]
        r == CASE th.op = "get" ->
                    [result |-> client_retrieve(client_sessions, vault, now,
                                                th.sid, th.name).result,
                     vault |-> vault]
               [] th.op = "set" ->
                    client_store(client_sessions, vault, now, th.sid, th.name,
                                 Encode(th.value))
               [] th.op = "rotate" ->
                    rotate_call(client_sessions, vault, now, th.sid, th.name,
                                Encode(th.value))
    IN /\ th.pc = "call"
       /\ vault' = r.vault
       /\ threads' = [threads EXCEPT ![t].pc =
                        IF r.result = "ok" THEN "log" ELSE "done"]
       /\ effects' = IF r.result = "ok"
                     THEN Append(effects, [workspace |-> th.workspace,
                                           action |-> LoggedAs(th.op),
                                           credential |-> th.name])
                     ELSE effects
       /\ UNCHANGED <<migVars, hwVars, fileVars, app, now, client_sessions, sessions, audit_log,
                      session_id, swLast, audit_view, op_count, last_set>>

\* the thread's "self._log_access(workspace, <action>, name)"
ThLog(t) ==
    LET th == threads[t] IN
    /\ th.pc = "log"
    /\ audit_log' = log_access(audit_log, now, th.workspace, LoggedAs(th.op),
                               th.name)
    /\ threads' = [threads EXCEPT ![t].pc = "done"]
    /\ UNCHANGED <<migVars, hwVars, fileVars, app, now, vault, client_sessions, sessions,
                   session_id, swLast, audit_view, op_count, last_set, effects>>

NextThreads ==
    \/ \E t \in Threads, op \in ThreadOps, w \in Workspaces, n \in Names,
          v \in Values : ThBegin(t, op, w, n, v)
    \/ \E t \in Threads : ThAuthenticate(t)
    \/ \E t \in Threads : ThAssign(t)
    \/ \E t \in Threads : ThSessionLog(t)
    \/ \E t \in Threads : ThReturn(t)
    \/ \E t \in Threads : ThCall(t)
    \/ \E t \in Threads : ThLog(t)

SpecThreads == InitThreads /\ [][NextThreads]_vars

-----------------------------------------------------------------------------
(* 04_migrate_credentials.py: scan plaintext sources, store what was found  *)
(* in the vault, then offer to overwrite and delete the plaintext files.    *)
(* Names and values are strings, written as sequences of character codes.   *)

\* "api_key", "pin", "nested", "API_KEY", "DB_PASS"
api_key == <<97, 112, 105, 95, 107, 101, 121>>
pin_name == <<112, 105, 110>>
nested == <<110, 101, 115, 116, 101, 100>>
API_KEY == <<65, 80, 73, 95, 75, 69, 89>>
DB_PASS == <<68, 66, 95, 80, 65, 83, 83>>
\* "KEY", "TOKEN", "SECRET": what a .env key must contain to be taken
EnvMarkers == {<<75, 69, 89>>,
               <<84, 79, 75, 69, 78>>,
               <<83, 69, 67, 82, 69, 84>>}

\* "len(value) > 10"
MinValueLen == 10
\* two values long enough to be taken, and one of exactly 10 characters
LongValue == [i \in 1..(MinValueLen + 1) |-> 115]
OtherValue == [i \in 1..(MinValueLen + 2) |-> 116]
ShortValue == [i \in 1..MinValueLen |-> 112]

\* a JSON value: a string, or something else (a number, a nested object)
Str(s) == [is_str |-> TRUE, text |-> s]
NonStr == [is_str |-> FALSE, text |-> <<>>]

\* keys_files, and the sources that can hold a file
keys_files == <<"keys.json", "credentials.json", "secrets.json", ".keys.json">>
env_file == ".env"
FileNames == {keys_files[i] : i \in 1..Len(keys_files)} \cup {env_file}

\* env_vars: "ANTHROPIC_API_KEY", "OPENAI_API_KEY", "GITHUB_TOKEN",
\* "AWS_SECRET_ACCESS_KEY"
env_vars == <<<<65, 78, 84, 72, 82, 79, 80, 73, 67, 95, 65, 80, 73, 95, 75, 69, 89>>,
              <<79, 80, 69, 78, 65, 73, 95, 65, 80, 73, 95, 75, 69, 89>>,
              <<71, 73, 84, 72, 85, 66, 95, 84, 79, 75, 69, 78>>,
              <<65, 87, 83, 95, 83, 69, 67, 82, 69, 84, 95, 65, 67, 67, 69, 83, 83, 95, 75, 69, 89>>>>

\* str.upper() and str.lower() on ASCII
upper(s) == [i \in 1..Len(s) |-> IF s[i] \in 97..122 THEN s[i] - 32 ELSE s[i]]
lower(s) == [i \in 1..Len(s) |-> IF s[i] \in 65..90 THEN s[i] + 32 ELSE s[i]]

\* "sub in s"
Contains(sub, s) ==
    \E i \in 0..(Len(s) - Len(sub)) : SubSeq(s, i + 1, i + Len(sub)) = sub

\* the scan's test on a JSON entry: "isinstance(value, str) and len(value) > 10"
JsonTaken(e) == e.value.is_str /\ Len(e.value.text) > MinValueLen

\* the scan's test on a .env line: KEY, TOKEN or SECRET in key.upper()
EnvTaken(e) == \E m \in EnvMarkers : Contains(m, upper(e.key))

\* the loop over data.items() of one JSON file
RECURSIVE scan_json(_, _, _)
scan_json(found, data, filename) ==
    IF data = <<>> THEN found
    ELSE LET e == Head(data) IN
         scan_json(IF JsonTaken(e)
                   THEN DictSet(found, e.key, <<e.value.text, filename>>)
                   ELSE found,
                   Tail(data), filename)

\* the loop over the lines of .env that hold an assignment; a line is given
\* by its key and its value, stripped
RECURSIVE scan_env(_, _)
scan_env(found, lines) ==
    IF lines = <<>> THEN found
    ELSE LET e == Head(lines) IN
         scan_env(IF EnvTaken(e)
                  THEN DictSet(found, lower(e.key), <<e.value, env_file>>)
                  ELSE found,
                  Tail(lines))

\* the loop over env_vars from position i
RECURSIVE scan_environ(_, _, _)
scan_environ(found, env, i) ==
    IF i > Len(env_vars) THEN found
    ELSE scan_environ(IF env_vars[i] \in Keys(env) /\ DictGet(env, env_vars[i]) # <<>>
                      THEN DictSet(found, lower(env_vars[i]),
                                   <<DictGet(env, env_vars[i]), "environment">>)
                      ELSE found,
                      env, i + 1)

\* the sources named by credentials_found, the environment left out
sources_to_delete(found) ==
    {found[i].value[2] : i \in 1..Len(found)} \ {"environment"}

\* AVPClient.authenticate() without a workspace: the default workspace
DefaultWorkspace == "default"

Absent == [exists |-> FALSE, data |-> <<>>]
File(d) == [exists |-> TRUE, data |-> d]

\* what the working directory may hold when the script starts
KeysJsonContents ==
    {Absent,
     File(<<[key |-> api_key, value |-> Str(LongValue)]>>),
     File(<<[key |-> api_key, value |-> Str(LongValue)],
            [key |-> pin_name, value |-> Str(ShortValue)]>>),
     File(<<[key |-> pin_name, value |-> Str(ShortValue)],
            [key |-> nested, value |-> NonStr]>>)}
CredentialsJsonContents ==
    {Absent, File(<<[key |-> api_key, value |-> Str(OtherValue)]>>)}
EnvContents ==
    {Absent,
     File(<<[key |-> API_KEY, value |-> LongValue]>>),
     File(<<[key |-> API_KEY, value |-> LongValue],
            [key |-> DB_PASS, value |-> OtherValue]>>)}
EnvironContents ==
    {<<>>, <<[name |-> env_vars[2], value |-> LongValue]>>}

\* the script after "Step 1": the vault is unlocked, a session is open
InitMigrate ==
    /\ InitHW
    /\ NoThreads
    /\ app = "migrate"
    /\ now = 0
    /\ vault = [w \in {DefaultWorkspace} |-> <<>>]
    /\ client_sessions = client_authenticate(<<>>, 0, DefaultWorkspace)
    /\ session_id = 1
    /\ sessions = <<>>
    /\ audit_log = <<>>
    /\ op_count = 0
    /\ last_set = <<>>
    /\ swLast = <<>>
    /\ audit_view = <<>>
    /\ client_closed = FALSE
    /\ vault_file = <<>>
    /\ tampered = FALSE
    /\ \E k \in KeysJsonContents, c \in CredentialsJsonContents,
          e \in EnvContents :
          files = [f \in FileNames |->
                     CASE f = keys_files[1] -> k
                       [] f = keys_files[2] -> c
                       [] f = env_file -> e
                       [] OTHER -> Absent]
    /\ environ \in EnvironContents
    /\ credentials_found = <<>>
    /\ migrated = 0
    /\ files_to_delete = {}
    /\ script = [pc |-> "scan_json", i |-> 1]

\* "for filename in keys_files": one file of the list
ScanJson ==
    LET f == keys_files[script.i] IN
    /\ app = "migrate"
    /\ script.pc = "scan_json"
    /\ credentials_found' =
         IF files[f].exists
         THEN scan_json(credentials_found, files[f].data, f)
         ELSE credentials_found
    /\ script' = IF script.i < Len(keys_files)
                 THEN [pc |-> "scan_json", i |-> script.i + 1]
                 ELSE [pc |-> "scan_env", i |-> 0]
    /\ UNCHANGED <<hwVars, swVars, thVars, files, environ, migrated,
                   files_to_delete>>

\* "if env_path.exists()"
ScanEnv ==
    /\ app = "migrate"
    /\ script.pc = "scan_env"
    /\ credentials_found' =
         IF files[env_file].exists
         THEN scan_env(credentials_found, files[env_file].data)
         ELSE credentials_found
    /\ script' = [pc |-> "scan_environ", i |-> 0]
    /\ UNCHANGED <<hwVars, swVars, thVars, files, environ, migrated,
                   files_to_delete>>

\* "for var in env_vars", then "if not credentials_found: ... exit(0)"
ScanEnviron ==
    LET found == scan_environ(credentials_found, environ, 1) IN
    /\ app = "migrate"
    /\ script.pc = "scan_environ"
    /\ credentials_found' = found
    /\ script' = [pc |-> IF found = <<>> THEN "close" ELSE "confirm", i |-> 0]
    /\ UNCHANGED <<hwVars, swVars, thVars, files, environ, migrated,
                   files_to_delete>>

\* "confirm = input(...)": anything but yes cancels the migration
Confirm(yes) ==
    /\ app = "migrate"
    /\ script.pc = "confirm"
    /\ script' = IF yes THEN [pc |-> "migrate", i |-> 1]
                 ELSE [pc |-> "close", i |-> 0]
    /\ UNCHANGED <<hwVars, swVars, thVars, files, environ, credentials_found,
                   migrated, files_to_delete>>

\* one round of "for name, (value, source) in credentials_found.items()":
\* the store, counted when it raised nothing; after the last round the
\* files to delete are collected
Migrate ==
    LET c == credentials_found[script.i]
        r == client_store(client_sessions, vault, now, session_id, c.name,
                          Encode(c.value[1]))
        last == script.i = Len(credentials_found)
        del == sources_to_delete(credentials_found)
    IN /\ app = "migrate"
       /\ script.pc = "migrate"
       /\ vault' = r.vault
       /\ migrated' = IF r.result = "ok" THEN migrated + 1 ELSE migrated
       /\ files_to_delete' = IF last THEN del ELSE files_to_delete
       /\ script' = IF ~last THEN [pc |-> "migrate", i |-> script.i + 1]
                    ELSE IF del = {} THEN [pc |-> "close", i |-> 0]
                    ELSE [pc |-> "confirm_delete", i |-> 0]
       /\ UNCHANGED <<hwVars, thVars, fileVars, app, now, client_sessions,
                      sessions, audit_log, session_id, swLast, audit_view,
                      op_count, last_set, files, environ, credentials_found>>

\* "confirm_delete = input(...)"
ConfirmDelete(yes) ==
    /\ app = "migrate"
    /\ script.pc = "confirm_delete"
    /\ script' = [pc |-> IF yes THEN "delete" ELSE "close", i |-> 0]
    /\ UNCHANGED <<hwVars, swVars, thVars, files, environ, credentials_found,
                   migrated, files_to_delete>>

\* one round of "for f in files_to_delete": the file is overwritten with
\* zeros and unlinked
DeleteFile(f) ==
    /\ app = "migrate"
    /\ script.pc = "delete"
    /\ f \in files_to_delete
    /\ files' = [files EXCEPT ![f] = Absent]
    /\ files_to_delete' = files_to_delete \ {f}
    /\ script' = [pc |-> IF files_to_delete = {f} THEN "close" ELSE "delete",
                  i |-> 0]
    /\ UNCHANGED <<hwVars, swVars, thVars, environ, credentials_found,
                   migrated>>

\* "client.close()" at each end of the script
MigClose ==
    LET r == client_close(client_closed, client_sessions) IN
    /\ app = "migrate"
    /\ script.pc = "close"
    /\ client_closed' = r.closed
    /\ client_sessions' = r.cs
    /\ script' = [pc |-> "done", i |-> 0]
    /\ UNCHANGED <<hwVars, thVars, vault_file, tampered, app, now, vault,
                   sessions, audit_log, session_id, swLast, audit_view,
                   op_count, last_set, files, environ, credentials_found,
                   migrated, files_to_delete>>

NextMigrate ==
    \/ ScanJson
    \/ ScanEnv
    \/ ScanEnviron
    \/ \E yes \in BOOLEAN : Confirm(yes)
    \/ Migrate
    \/ \E yes \in BOOLEAN : ConfirmDelete(yes)
    \/ \E f \in FileNames : DeleteFile(f)
    \/ MigClose
    \/ Tick

SpecMigrate == InitMigrate /\ [][NextMigrate]_vars

-----------------------------------------------------------------------------
(* Claims about the credential manager and the credential provider          *)

\* the session the last call was issued with
CallSession ==
    IF app = "manager" THEN sessions[swLast.workspace] ELSE session_id

\* that session was still valid when the call was made
CallSessionValid == SessionValid(client_sessions, swLast.at, CallSession)

\* the name of the last call is stored in another workspace and not in its own
StoredOnlyElsewhere ==
    /\ swLast.name \notin Keys(vault[swLast.workspace])
    /\ \E w1 \in Workspaces \ {swLast.workspace} :
          swLast.name \in Keys(vault[w1])

ExpiredFor(w) ==
    IF app = "manager"
    THEN /\ w \in DOMAIN sessions
         /\ ~SessionValid(client_sessions, now, sessions[w])
    ELSE ~SessionValid(client_sessions, now, session_id)

\* C6: once a session's ttl has elapsed, every call made with it fails with
\* the session-expired error and changes nothing; no session is ever renewed
\* or replaced by the call.
C6_ExpiredSessionFails ==
    [][(op_count' # op_count)
          => /\ ExpiredFor(swLast'.workspace)
                => /\ swLast'.cause = "SessionExpiredError"
                   /\ vault' = vault
                   /\ client_sessions' = client_sessions
                   /\ sessions' = sessions
                   /\ session_id' = session_id
             /\ \A i \in 1..Len(client_sessions) :
                   client_sessions'[i] = client_sessions[i]]_vars

\* a manager call was refused because its workspace's session had expired
C6_Witness ==
    /\ app = "manager"
    /\ swLast.op \in {"get", "set", "rotate", "list"}
    /\ swLast.cause = "SessionExpiredError"
    /\ swLast.at >= client_sessions[sessions[swLast.workspace]].expires_at

\* C7: after N credential operations the audit log holds N entries plus one
\* session_created entry per workspace used.
C7_AuditComplete ==
    app = "manager"
    => Len(audit_log) = op_count + Cardinality(DOMAIN sessions)

ActionOf(op) ==
    CASE op = "get" -> "retrieve"
      [] op = "set" -> "store"
      [] OTHER -> op

\* C8: a get, set or rotate that fails with a backend error has appended its
\* audit entry: the last entry of the log is the entry of that call.
C8_FailureAudited ==
    (app = "manager" /\ swLast.op \in {"get", "set", "rotate"}
        /\ swLast.result # "ok")
    => /\ audit_log # <<>>
       /\ audit_log[Len(audit_log)].workspace = swLast.workspace
       /\ audit_log[Len(audit_log)].action = ActionOf(swLast.op)
       /\ audit_log[Len(audit_log)].credential = swLast.name

SecurityFailures ==
    {"SessionExpiredError", "AuthenticationError", "IntegrityError"}

\* C9: a provider get that failed for a security reason is not reported as
\* the kind of error a missing credential is reported as.
C9_DistinctFailureKinds ==
    (app = "provider" /\ swLast.op = "get" /\ swLast.cause \in SecurityFailures)
    => swLast.result # get_report("NotFoundError")

-----------------------------------------------------------------------------
(* Claims about the audit log, delete, versions and sessions                *)

\* the audit entries of credential operations, without the session_created ones
OperationEntries ==
    SelectSeq(audit_log, LAMBDA e : e.action # "session_created")

EntryKey(e) ==
    [workspace |-> e.workspace, action |-> e.action, credential |-> e.credential]

AllDone == \A t \in Threads : threads[t].pc = "done"

\* C15: when threads call get, set and rotate on one manager concurrently and
\* all have returned, the audit entries of their operations stand in the log
\* in the order in which the operations took effect on the vault, none lost.
C15_AuditInEffectOrder ==
    (threads # <<>> /\ AllDone)
    => /\ Len(OperationEntries) = Len(effects)
       /\ \A i \in 1..Len(effects) : EntryKey(OperationEntries[i]) = effects[i]

IsPrefix(a, b) == Len(a) <= Len(b) /\ SubSeq(b, 1, Len(a)) = a

\* C16: the audit log is append-only: the log before any step is a prefix of
\* the log after it; get_audit_log returns the log in insertion order and
\* leaves it as it was, and a repeated call returns an equal sequence.
C16_AppendOnly ==
    [][/\ IsPrefix(audit_log, audit_log')
       /\ swLast'.op = "get_audit_log"
          => /\ audit_view' = audit_log
             /\ audit_log' = audit_log
       /\ (swLast.op = "get_audit_log" /\ swLast'.op = "get_audit_log")
          => audit_view' = audit_view]_vars

C16_Witness ==
    /\ swLast.op = "get_audit_log"
    /\ Len(audit_view) = 3
    /\ audit_view[1].action = "session_created"
    /\ audit_view[3].action = "retrieve"

\* what a delete of n that took `pre` to `post` and returned `res` must satisfy
DeleteEffect(pre, post, res, n) ==
    /\ res \in {"True", "False"}
    /\ res = "True" <=> n \in Keys(pre)
    /\ n \notin Keys(post)
    /\ \A m \in Keys(pre) \ {n} :
          /\ m \in Keys(post)
          /\ post[IndexOf(post, m)] = pre[IndexOf(pre, m)]
    /\ Keys(post) \subseteq Keys(pre)
    /\ Len(post) = Len(pre) - (IF n \in Keys(pre) THEN 1 ELSE 0)
    /\ n \notin Keys(pre) => post = pre

\* a step that is a delete of the hardware key / of the provider
HwDeleteStep == app = "hardware" /\ hwLast'.op = "delete" /\ hwLast' # hwLast
ProvDeleteStep == app = "provider" /\ swLast'.op = "delete" /\ op_count' # op_count

C18_DeleteAudited ==
    (app = "manager" /\ swLast.op = "delete")
    => /\ audit_log # <<>>
       /\ audit_log[Len(audit_log)].action = "delete"
       /\ audit_log[Len(audit_log)].workspace = swLast.workspace
       /\ audit_log[Len(audit_log)].credential = swLast.name

VersionOf(vlt, w, n) == vlt[w][IndexOf(vlt[w], n)].version

\* C19: a rotate of an existing secret that is carried out leaves a version
\* strictly greater than before; a set on an existing name that is carried out
\* leaves version 1.
C19_Versioning ==
    [][\A w \in AllWorkspaces, n \in Names :
          (/\ op_count' # op_count
           /\ swLast'.workspace = w /\ swLast'.name = n
           /\ swLast'.result = "ok"
           /\ n \in Keys(vault[w]))
          => /\ swLast'.op = "rotate"
                => /\ n \in Keys(vault'[w])
                   /\ VersionOf(vault', w, n) > VersionOf(vault, w, n)
             /\ swLast'.op = "set"
                => /\ n \in Keys(vault'[w])
                   /\ VersionOf(vault', w, n) = 1]_vars

\* a secret rotated twice by the manager
C19_Witness ==
    /\ app = "manager"
    /\ swLast.op = "rotate"
    /\ swLast.result = "ok"
    /\ VersionOf(vault, swLast.workspace, swLast.name) = 3

ManagerCalls == {"get", "set", "rotate", "list", "delete"}

\* C20: the manager holds one session per workspace; the sessions of distinct
\* workspaces are distinct, each was issued for the workspace it is held for,
\* and a call on workspace W went out with W's session.
C20_SessionPerWorkspace ==
    app = "manager"
    => /\ \A w \in DOMAIN sessions :
             /\ sessions[w] \in 1..Len(client_sessions)
             /\ client_sessions[sessions[w]].workspace = w
       /\ \A w1, w2 \in DOMAIN sessions : w1 # w2 => sessions[w1] # sessions[w2]
       /\ swLast.op \in ManagerCalls
          => /\ swLast.workspace \in DOMAIN sessions
             /\ swLast.sid = sessions[swLast.workspace]
             /\ client_sessions[swLast.sid].workspace = swLast.workspace

\* both workspaces hold a session and the second one's was used
C20_Witness ==
    /\ app = "manager"
    /\ Cardinality(DOMAIN sessions) = 2
    /\ swLast.op = "get"
    /\ swLast.sid = 2

-----------------------------------------------------------------------------
(* Claims about list, close and the vault file                              *)

NameStrings == {AllNames[i] : i \in 1..Len(AllNames)} \cup Names

\* `names` is the names of the entries of s, each once, in the order of s
ListExact(names, s) ==
    /\ Len(names) = Len(s)
    /\ \A i \in 1..Len(s) : names[i] \in NameStrings /\ names[i] = s[i].name
    /\ {names[i] : i \in 1..Len(names)} = Keys(s)
    /\ Cardinality(Keys(s)) = Len(s)

\* the entries of post that pre held stand in the order pre had them, and the
\* entries added stand after them
InsertionOrderKept(pre, post) ==
    \A i, j \in 1..Len(post) :
       i < j =>
         /\ (post[i].name \in Keys(pre) /\ post[j].name \in Keys(pre))
            => IndexOf(pre, post[i].name) < IndexOf(pre, post[j].name)
         /\ post[i].name \notin Keys(pre) => post[j].name \notin Keys(pre)

\* C21: a list that returns, on the hardware key, the manager or the
\* provider, returns the names stored at that moment, each once, names only,
\* in insertion order: every step keeps the order of the entries that stay
\* and puts new entries last.
C21_ListNamesInOrder ==
    [][/\ (app = "hardware" /\ hwLast'.op = "list" /\ hwLast'.result = "ok")
          => ListExact(hwLast'.names, slots')
       /\ (app # "hardware" /\ op_count' # op_count /\ swLast'.op = "list"
              /\ swLast'.result = "ok")
          => ListExact(swLast'.names, vault'[swLast'.workspace])
       /\ app = "hardware" => InsertionOrderKept(slots, slots')
       /\ app # "hardware"
          => \A w \in AllWorkspaces : InsertionOrderKept(vault[w], vault'[w])]_vars

\* the manager listed two names in the order they were stored
C21_Witness ==
    /\ app = "manager"
    /\ swLast.op = "list"
    /\ swLast.result = "ok"
    /\ swLast.names = <<"temp_token", "anthropic_api_key">>

\* what the manager, the provider and the client hold
ObjectState ==
    <<client_closed, client_sessions, sessions, session_id, audit_log, vault>>

\* C24: close raises no error, and a close (or __exit__) of a manager or a
\* provider that is already closed leaves the state that the first close left.
C24_CloseIdempotent ==
    [][(swLast'.op = "close" /\ now' = now)
          => /\ swLast'.result = "ok"
             /\ client_closed'
             /\ client_closed => ObjectState' = ObjectState]_vars

\* a second close, later than the first, of a manager that holds sessions
C24_Witness ==
    /\ app = "manager"
    /\ swLast.op = "close"
    /\ swLast.result = "ok"
    /\ swLast.at = MaxTime
    /\ sessions # <<>>
    /\ \A i \in 1..Len(client_sessions) : client_sessions[i].closed

\* C27: once a byte of the vault file has been changed, every authenticate
\* on it fails with IntegrityError and issues no session, and a get that
\* returns a value returns the value that was stored.
C27_TamperDetected ==
    [][/\ (tampered' /\ swLast'.op = "connect" /\ swLast' # swLast)
          => /\ swLast'.result = "IntegrityError"
             /\ session_id' = 0
             /\ client_sessions' = client_sessions
             /\ vault' = vault
       /\ (op_count' # op_count /\ swLast'.op = "get" /\ swLast'.result = "ok")
          => {swLast'.out} = last_set[<<ProviderWorkspace, swLast'.name>>]]_vars

\* the provider could not be constructed on a vault file with a changed byte
C27_Witness ==
    /\ tampered
    /\ swLast.op = "connect"
    /\ swLast.result = "IntegrityError"
    /\ vault[ProviderWorkspace] # <<>>
    /\ session_id = 0

\* the manager alone: the calls that reach _get_session or _log_access, the
\* demos' direct delete, and the clock
InitAudit == InitHW /\ InitVault /\ NoThreads /\ NoMigration /\ InitManager

NextAudit ==
    \/ \E w \in Workspaces, n \in Names : MgrGet(w, n)
    \/ \E w \in Workspaces, n \in Names, v \in Values : MgrSet(w, n, v)
    \/ \E w \in Workspaces, n \in Names, v \in Values : MgrRotate(w, n, v)
    \/ \E w \in Workspaces : MgrList(w)
    \/ \E w \in Workspaces, n \in Names : MgrDelete(w, n)
    \/ Tick

SpecAudit == InitAudit /\ [][NextAudit]_vars

AuditActions ==
    {"session_created", "store", "retrieve", "delete", "rotate", "list"}

\* C36: every audit entry has exactly the fields timestamp, workspace, action
\* and credential; its action is one of session_created, store, retrieve,
\* delete, rotate, list; its credential is a credential name or empty, never
\* a value (values are byte strings); and no field holds the vault password.
C36_AuditEntryShape ==
    \A i \in 1..Len(audit_log) :
       LET e == audit_log[i] IN
       /\ DOMAIN e = {"timestamp", "workspace", "action", "credential"}
       /\ e.timestamp \in 0..now
       /\ e.workspace \in Workspaces
       /\ e.action \in AuditActions
       /\ e.credential \in Names \cup {""}
       /\ e.action = "session_created" <=> e.credential = ""
       /\ \A f \in DOMAIN e \ {"timestamp"} : e[f] # password

\* a set and a rotate of one credential were logged after the session entry
C36_Witness ==
    /\ swLast.op = "rotate"
    /\ swLast.result = "ok"
    /\ Len(audit_log) = 3
    /\ audit_log[1].action = "session_created"
    /\ audit_log[2].action = "store"
    /\ audit_log[3].action = "rotate"
    /\ audit_log[3].credential = swLast.name

\* C32: a get, set, rotate or list_credentials on a workspace whose cached
\* session has expired does not fail for the expired session: the manager
\* replaces the session, so that the call leaves the workspace with a session
\* that is valid.
C32_ExpiredSessionRenewed ==
    [][(op_count' # op_count /\ app = "manager"
           /\ swLast'.op \in {"get", "set", "rotate", "list"}
           /\ ExpiredFor(swLast'.workspace))
          => /\ swLast'.cause # "SessionExpiredError"
             /\ SessionValid(client_sessions', now',
                             sessions'[swLast'.workspace])]_vars

\* the sessions the client issued for workspace w
IssuedFor(w) ==
    {i \in 1..Len(client_sessions) : client_sessions[i].workspace = w}

\* the session_created entries of workspace w
CreatedFor(w) ==
    {i \in 1..Len(audit_log) :
        /\ audit_log[i].action = "session_created"
        /\ audit_log[i].workspace = w}

\* C33: when the threads all went through _get_session for one workspace
\* that had no session before, authenticate was called once for the
\* workspace, one session_created entry was logged for it and the threads
\* all got the same session id.
C33_OneSessionUnderRace ==
    \A w \in Workspaces :
       (/\ threads # <<>>
        /\ \A t \in Threads : /\ threads[t].workspace = w
                               /\ threads[t].pc \in {"call", "log", "done"})
       => /\ Cardinality(IssuedFor(w)) = 1
          /\ Cardinality(CreatedFor(w)) = 1
          /\ \A t, u \in Threads : threads[t].sid = threads[u].sid

\* the name under which the scan files entry e of file f
ScanName(f, e) == IF f = env_file THEN lower(e.key) ELSE e.key

\* the string the entry e of file f holds, <<>> when it holds none
ScanText(f, e) ==
    IF f = env_file THEN e.value
    ELSE IF e.value.is_str THEN e.value.text ELSE <<>>

\* the vault vlt holds the string s under the name n
InVault(vlt, n, s) ==
    /\ n \in Keys(vlt[DefaultWorkspace])
    /\ Decode(DictGet(vlt[DefaultWorkspace], n)) = s

\* C34: when the migration script deletes a plaintext file, every string
\* entry of that file is in the vault under its name.
C34_DeleteOnlyMigrated ==
    [][\A f \in FileNames :
          (app = "migrate" /\ files[f].exists /\ ~files'[f].exists)
          => \A i \in 1..Len(files[f].data) :
                LET e == files[f].data[i] IN
                ScanText(f, e) # <<>>
                  => InVault(vault', ScanName(f, e), ScanText(f, e))]_vars

====
